---- MODULE Spec2Model ----
(***************************************************************************)
(* Model of the job-digest scripts src/jobs_scraper.py (six sources, a     *)
(* keyword list) and src/Jobs_scraper.py (the earlier two-source script).  *)
(*                                                                         *)
(* Three specifications share the module:                                  *)
(*   SpecClassifier  detect_notice_period applied to bounded texts         *)
(*   SpecGather      gather_all_jobs, one step per (keyword, source) fetch *)
(*   Spec            runs of main: gather, render, preview file, delivery  *)
(*                                                                         *)
(* Text is a sequence of one-character strings, so that the regular        *)
(* expressions are matched character by character.  Python's None is the   *)
(* one-element sequence None, which is no text.                            *)
(***************************************************************************)
EXTENDS Integers, Sequences, FiniteSets, TLC

VARIABLES
    text,       \* classifier: the argument of detect_notice_period
    notice,     \* classifier: the value returned
    cpc,        \* classifier: "input", "main" (jobs_scraper) or "legacy" (Jobs_scraper)
    keywords,   \* gather: the argument of gather_all_jobs
    gpc,        \* gather: "fetch", "dedup", "done" ("idle" outside SpecGather)
    slot,       \* gather: index of the next (keyword, source) pair to fetch
    all_found,  \* gather: the list all_found
    unique,     \* gather: the list returned
    fetchLog,   \* gather: the (keyword, source) pairs requested so far, in order
    lastOk,     \* gather: whether the most recent request succeeded
    lastLen,    \* gather: Len(all_found) before the most recent fetch
    firstFail,  \* gather: index of the first request that failed, 0 if none did
    prog,       \* main: which script runs, "jobs_scraper" or "Jobs_scraper"
    env,        \* main: the process environment read at import
    run,        \* main: number of the current run of the process
    pc,         \* main: position inside main
    jobs,       \* main: the local jobs
    html,       \* main: the local html
    file,       \* main: content of last_email.html in the working directory
    lastWrite,  \* main: how this run's latest write of last_email.html ended
    smtp,       \* main: SMTP calls made in this run, in order
    exit        \* main: "running", "ok" (exit 0) or the kind of propagated error

cvars == <<text, notice, cpc>>
gvars == <<keywords, gpc, slot, all_found, unique, fetchLog, lastOk, lastLen, firstFail>>
mvars == <<prog, env, run, pc, jobs, html, file, lastWrite, smtp, exit>>
vars == <<text, notice, cpc, keywords, gpc, slot, all_found, unique, fetchLog, lastOk,
          lastLen, firstFail, prog, env, run, pc, jobs, html, file, lastWrite, smtp, exit>>

None == <<"None">>

(***************************************************************************)
(* Characters and the regular-expression primitives                        *)
(***************************************************************************)
Digits == {"0", "1", "2", "3", "4", "5", "6", "7", "8", "9"}

LowerLetters == {"a", "b", "c", "d", "e", "f", "g", "h", "i", "j", "k", "l", "m",
                 "n", "o", "p", "q", "r", "s", "t", "u", "v", "w", "x", "y", "z"}

UpperLetters == {"A", "B", "C", "D", "E", "F", "G", "H", "I", "J", "K", "L", "M",
                 "N", "O", "P", "Q", "R", "S", "T", "U", "V", "W", "X", "Y", "Z"}

\* str.lower() on one character
LowerChar(c) ==
    CASE c = "A" -> "a" [] c = "B" -> "b" [] c = "C" -> "c" [] c = "D" -> "d"
      [] c = "E" -> "e" [] c = "F" -> "f" [] c = "G" -> "g" [] c = "H" -> "h"
      [] c = "I" -> "i" [] c = "J" -> "j" [] c = "K" -> "k" [] c = "L" -> "l"
      [] c = "M" -> "m" [] c = "N" -> "n" [] c = "O" -> "o" [] c = "P" -> "p"
      [] c = "Q" -> "q" [] c = "R" -> "r" [] c = "S" -> "s" [] c = "T" -> "t"
      [] c = "U" -> "u" [] c = "V" -> "v" [] c = "W" -> "w" [] c = "X" -> "x"
      [] c = "Y" -> "y" [] c = "Z" -> "z" [] OTHER -> c

Lower(t) == [i \in 1..Len(t) |-> LowerChar(t[i])]

\* text.replace("\n", " ")
ReplaceNewlines(t) == [i \in 1..Len(t) |-> IF t[i] = "\n" THEN " " ELSE t[i]]

\* \w and \s of the re module
IsWordChar(c) == c \in Digits \cup LowerLetters \cup UpperLetters \cup {"_"}
IsSpace(c) == c \in {" ", "\n", "\t"}

\* the character after position i is a word character (positions are 0..Len(t))
WordAt(t, i) == i >= 1 /\ i <= Len(t) /\ IsWordChar(t[i])

\* \b between t[i] and t[i+1]
Boundary(t, i) == WordAt(t, i) # WordAt(t, i + 1)

\* the literal lit occupies t[i+1 .. i+Len(lit)]
LitAt(t, i, lit) ==
    /\ i + Len(lit) <= Len(t)
    /\ \A k \in 1..Len(lit) : t[i + k] = lit[k]

\* (?:day|days)\b matched from position i: the alternatives in order
DayWordAt(t, i) ==
    \/ LitAt(t, i, <<"d", "a", "y">>) /\ Boundary(t, i + 3)
    \/ LitAt(t, i, <<"d", "a", "y", "s">>) /\ Boundary(t, i + 4)

\* \s*(?:day|days)\b matched from position i
SpacesThenDayAt(t, i) ==
    \E k \in 0..(Len(t) - i) :
        /\ \A j \in 1..k : IsSpace(t[i + j])
        /\ DayWordAt(t, i + k)

\* the alternatives of IMMEDIATE_RE
IMMEDIATE_ALTS ==
    { <<"i", "m", "m", "e", "d", "i", "a", "t", "e">>,
      <<"a", "s", "a", "p">>,
      <<"j", "o", "i", "n", " ", "i", "m", "m", "e", "d", "i", "a", "t", "e", "l", "y">>,
      <<"j", "o", "i", "n", " ", "a", "s", "a", "p">>,
      <<"i", "m", "m", "e", "d", "i", "a", "t", "e", "l", "y">> }

\* IMMEDIATE_RE.search(t)
IMMEDIATE_RE(t) ==
    \E i \in 0..Len(t) :
        /\ Boundary(t, i)
        /\ \E alt \in IMMEDIATE_ALTS : LitAt(t, i, alt) /\ Boundary(t, i + Len(alt))

\* NINETY_RE.search(t)
NINETY_RE(t) ==
    \E i \in 0..Len(t) :
        /\ Boundary(t, i)
        /\ LitAt(t, i, <<"9", "0">>)
        /\ SpacesThenDayAt(t, i + 2)

\* \b(\d{1,3})\s*(?:day|days)\b matched at start i with an n-digit group
NoticeAt(t, i, n) ==
    /\ Boundary(t, i)
    /\ i + n <= Len(t)
    /\ \A k \in 1..n : t[i + k] \in Digits
    /\ SpacesThenDayAt(t, i + n)

NoticeStarts(t) == {i \in 0..Len(t) : \E n \in 1..3 : NoticeAt(t, i, n)}

\* NOTICE_RE.search(t).group(1): leftmost start, greedy digit count; None if no match
NOTICE_RE(t) ==
    IF NoticeStarts(t) = {} THEN None
    ELSE LET i == CHOOSE a \in NoticeStarts(t) : \A b \in NoticeStarts(t) : a <= b
             n == CHOOSE a \in 1..3 :
                      NoticeAt(t, i, a) /\ \A b \in 1..3 : NoticeAt(t, i, b) => b <= a
         IN  SubSeq(t, i + 1, i + n)

(***************************************************************************)
(* int() and str() on decimal digit strings                                *)
(***************************************************************************)
DigitVal(c) ==
    CASE c = "0" -> 0 [] c = "1" -> 1 [] c = "2" -> 2 [] c = "3" -> 3 [] c = "4" -> 4
      [] c = "5" -> 5 [] c = "6" -> 6 [] c = "7" -> 7 [] c = "8" -> 8 [] c = "9" -> 9

DigitChar(d) ==
    CASE d = 0 -> "0" [] d = 1 -> "1" [] d = 2 -> "2" [] d = 3 -> "3" [] d = 4 -> "4"
      [] d = 5 -> "5" [] d = 6 -> "6" [] d = 7 -> "7" [] d = 8 -> "8" [] d = 9 -> "9"

RECURSIVE ParseInt(_)
\* int(s) for a non-empty digit string
ParseInt(s) ==
    IF s = <<>> THEN 0
    ELSE 10 * ParseInt(SubSeq(s, 1, Len(s) - 1)) + DigitVal(s[Len(s)])

RECURSIVE FormatInt(_)
\* str(n) for n >= 0
FormatInt(n) ==
    IF n < 10 THEN <<DigitChar(n)>>
    ELSE FormatInt(n \div 10) \o <<DigitChar(n % 10)>>

(***************************************************************************)
(* detect_notice_period                                                    *)
(***************************************************************************)
Immediate == <<"I", "m", "m", "e", "d", "i", "a", "t", "e">>
NinetyDays == <<"9", "0", " ", "d", "a", "y", "s">>
NotStated == <<"N", "o", "t", " ", "s", "t", "a", "t", "e", "d">>
DaysSuffix == <<" ", "d", "a", "y", "s">>

\* f"{int(m.group(1))} days"
FormatDays(group) == FormatInt(ParseInt(group)) \o DaysSuffix

\* detect_notice_period with the 90-day rule tried before the immediate rule
detect_NinetyFirst(t0) ==
    IF t0 = None \/ t0 = <<>> THEN NotStated
    ELSE LET t == Lower(ReplaceNewlines(t0))
         IN  IF NINETY_RE(t) THEN NinetyDays
             ELSE IF IMMEDIATE_RE(t) THEN Immediate
             ELSE IF NOTICE_RE(t) # None THEN FormatDays(NOTICE_RE(t))
             ELSE NotStated

\* detect_notice_period with the 90-day rule matched without the leading \b
detect_SubstringNinety(t0) ==
    IF t0 = None \/ t0 = <<>> THEN NotStated
    ELSE LET t == Lower(ReplaceNewlines(t0))
         IN  IF IMMEDIATE_RE(t) THEN Immediate
             ELSE IF \E i \in 0..Len(t) : LitAt(t, i, <<"9", "0">>) /\ SpacesThenDayAt(t, i + 2)
                  THEN NinetyDays
             ELSE IF NOTICE_RE(t) # None THEN FormatDays(NOTICE_RE(t))
             ELSE NotStated

\* jobs_scraper.detect_notice_period
detect_notice_period(t0) ==
    IF t0 = None \/ t0 = <<>> THEN NotStated
    ELSE LET t == Lower(ReplaceNewlines(t0))
         IN  IF IMMEDIATE_RE(t) THEN Immediate
             ELSE IF NINETY_RE(t) THEN NinetyDays
             ELSE IF NOTICE_RE(t) # None THEN FormatDays(NOTICE_RE(t))
             ELSE NotStated

\* the alternatives of IMMEDIATE_RE in Jobs_scraper.py
legacy_IMMEDIATE_ALTS ==
    { <<"i", "m", "m", "e", "d", "i", "a", "t", "e">>,
      <<"j", "o", "i", "n", " ", "i", "m", "m", "e", "d", "i", "a", "t", "e", "l", "y">>,
      <<"a", "s", "a", "p">> }

legacy_IMMEDIATE_RE(t) ==
    \E i \in 0..Len(t) :
        /\ Boundary(t, i)
        /\ \E alt \in legacy_IMMEDIATE_ALTS : LitAt(t, i, alt) /\ Boundary(t, i + Len(alt))

\* Jobs_scraper.detect_notice_period: no newline replacement, group(1) printed as matched
legacy_detect_notice_period(t0) ==
    IF t0 = None \/ t0 = <<>> THEN NotStated
    ELSE LET t == Lower(t0)
         IN  IF legacy_IMMEDIATE_RE(t) THEN Immediate
             ELSE IF NINETY_RE(t) THEN NinetyDays
             ELSE IF NOTICE_RE(t) # None THEN NOTICE_RE(t) \o DaysSuffix
             ELSE NotStated

(***************************************************************************)
(* Job records and the six scrapers of jobs_scraper.py                     *)
(*                                                                         *)
(* A card is what the selectors find in one listing: the text of the title *)
(* node, of the company node, the href and the snippet text, each None     *)
(* when the node or attribute is absent.  A link is a sequence of URL      *)
(* pieces; a response is a failure (requests.get or raise_for_status       *)
(* raised) or the sequence of cards of the page.                           *)
(***************************************************************************)
PER_SOURCE_LIMIT == 8

SOURCES == <<"Indeed", "Internshala", "Naukri", "Foundit", "Hirist", "LinkedIn">>

Origin(src) ==
    CASE src = "Indeed" -> <<"https://", "in.indeed.com">>
      [] src = "Internshala" -> <<"https://", "internshala.com">>
      [] src = "Foundit" -> <<"https://", "www.foundit.in">>
      [] src = "Hirist" -> <<"https://", "hirist.com">>

\* link and link.startswith("/")
StartsWithSlash(link) == link # None /\ link # <<>> /\ link[1] = "/"

\* if link and link.startswith("/"): link = origin + link
Absolutize(src, link) == IF StartsWithSlash(link) THEN Origin(src) \o link ELSE link

\* the link of a record of source src, from the extracted link
RewriteLink(src, link) ==
    IF src \in {"Indeed", "Internshala", "Foundit", "Hirist"}
    THEN Absolutize(src, link)
    ELSE link

\* X if node else default
OrDefault(v, d) == IF v = None THEN d ELSE v

NoTitle == <<"No title">>
Unknown == <<"Unknown">>

\* s[:n]
Truncate(s, n) == IF Len(s) <= n THEN s ELSE SubSeq(s, 1, n)

\* href if href else None
Truthy(v) == IF v = <<>> THEN None ELSE v

Job(src, title, company, link, snippet) ==
    [source |-> src, title |-> title, company |-> company, link |-> link,
     snippet |-> snippet, notice |-> detect_notice_period(snippet)]

\* the body of the per-card try block: <<record>>, or <<>> when the card raised
ScrapeCard(src, c) ==
    CASE src = "Indeed" ->
            IF c.title = None THEN <<>>   \* None.get_text raises; the card is skipped
            ELSE <<Job(src, c.title, OrDefault(c.company, Unknown),
                       RewriteLink(src, c.href), OrDefault(c.snippet, <<>>))>>
      [] src = "Internshala" ->
            \* title and link are read off the same anchor
            <<Job(src, OrDefault(c.title, NoTitle), OrDefault(c.company, Unknown),
                  RewriteLink(src, IF c.title = None THEN None ELSE c.href),
                  Truncate(OrDefault(c.snippet, <<>>), 200))>>
      [] src = "Naukri" ->
            <<Job(src, OrDefault(c.title, NoTitle), OrDefault(c.company, Unknown),
                  RewriteLink(src, IF c.title = None THEN None ELSE Truthy(c.href)),
                  Truncate(OrDefault(c.snippet, <<>>), 250))>>
      [] src = "Foundit" ->
            <<Job(src, OrDefault(c.title, NoTitle), OrDefault(c.company, Unknown),
                  RewriteLink(src, c.href),
                  Truncate(OrDefault(c.snippet, <<>>), 200))>>
      [] src = "Hirist" ->
            <<Job(src, OrDefault(c.title, NoTitle), OrDefault(c.company, Unknown),
                  RewriteLink(src, IF c.title = None THEN None ELSE Truthy(c.href)),
                  Truncate(OrDefault(c.snippet, <<>>), 200))>>
      [] src = "LinkedIn" ->
            <<Job(src, OrDefault(c.title, NoTitle), OrDefault(c.company, Unknown),
                  RewriteLink(src, Truthy(c.href)),
                  Truncate(OrDefault(c.snippet, <<>>), 200))>>

RECURSIVE ScrapeCards(_, _)
ScrapeCards(src, cards) ==
    IF cards = <<>> THEN <<>>
    ELSE ScrapeCard(src, Head(cards)) \o ScrapeCards(src, Tail(cards))

\* scrape_<source>_for(query) given the response to its request: a failed
\* request leaves results empty, and the function returns normally either way
Scrape(src, resp) ==
    IF ~ resp.ok THEN <<>>
    ELSE ScrapeCards(src, Truncate(resp.cards, PER_SOURCE_LIMIT))

\* [{"keyword": kw, **j} for j in results]
RECURSIVE Tagged(_, _)
Tagged(kw, results) ==
    IF results = <<>> THEN <<>>
    ELSE <<[keyword |-> kw] @@ Head(results)>> \o Tagged(kw, Tail(results))

(***************************************************************************)
(* gather_all_jobs                                                         *)
(***************************************************************************)
NumSources == Len(SOURCES)

NumSlots(kws) == Len(kws) * NumSources

\* the keyword and the source of the s-th request of the nested loops
KeywordOf(kws, s) == kws[((s - 1) \div NumSources) + 1]
SourceOf(s) == SOURCES[((s - 1) % NumSources) + 1]

\* a request error that escaped the scraper would be caught by the keyword
\* loop, which would go on with the next keyword
NextSlot_SkipKeyword(s, resp) ==
    IF ~ resp.ok THEN (((s - 1) \div NumSources) + 1) * NumSources + 1 ELSE s + 1

\* the request made after the s-th: every scraper returns normally, so the
\* except branch of the keyword loop is never taken
NextSlot(s, resp) == s + 1

\* the key without the source, as gather_jobs of Jobs_scraper.py builds it
DedupKey_NoSource(item) == <<item.title, item.company, item.link>>

\* key = (source, title, company, link)
DedupKey(item) == <<item.source, item.title, item.company, item.link>>

RECURSIVE DedupLoop(_, _, _)
\* the loop over all_found with its locals seen and unique
DedupLoop(items, seen, uniq) ==
    IF items = <<>> THEN uniq
    ELSE LET item == Head(items)
             key == DedupKey(item)
         IN  IF key \notin seen
             THEN DedupLoop(Tail(items), seen \cup {key}, Append(uniq, item))
             ELSE DedupLoop(Tail(items), seen, uniq)

Dedup(items) == DedupLoop(items, {}, <<>>)

\* a response: the request failed, or the cards of the page
Failure == [ok |-> FALSE, cards |-> <<>>]
Page(cards) == [ok |-> TRUE, cards |-> cards]

IdleGather ==
    /\ keywords = <<>>
    /\ gpc = "idle" /\ slot = 0 /\ all_found = <<>> /\ unique = <<>>
    /\ fetchLog = <<>> /\ lastOk = TRUE /\ lastLen = 0 /\ firstFail = 0

\* no document: the value of html before it is rendered
NoDocument == [stamp |-> 0, body |-> <<>>]

\* last_email.html: missing, truncated by a write that failed, or holding a document
MissingFile == [state |-> "missing", content |-> NoDocument]
TruncatedFile == [state |-> "truncated", content |-> NoDocument]
WrittenFile(doc) == [state |-> "written", content |-> doc]

IdleMain ==
    /\ prog = "none" /\ env = <<>> /\ run = 0 /\ pc = "idle" /\ jobs = <<>>
    /\ html = NoDocument /\ file = MissingFile /\ lastWrite = "none"
    /\ smtp = <<>> /\ exit = "running"

IdleClassifier == text = None /\ notice = None /\ cpc = "idle"

(***************************************************************************)
(* SpecGather: one call of gather_all_jobs, a step per request             *)
(***************************************************************************)
MaxFound == 3

Card(title, company, href, snippet) ==
    [title |-> title, company |-> company, href |-> href, snippet |-> snippet]

RelLink == <<"/", "job-1">>
AbsLink == <<"https://", "jobs.example.com", "/", "job-1">>

CardA == Card(<<"Java Developer">>, <<"Acme">>, RelLink, <<"9", "0", " ", "d", "a", "y", "s">>)
CardA2 == Card(<<"Java Developer">>, <<"Acme">>, RelLink, <<"A", "S", "A", "P">>)
CardBare == Card(None, None, AbsLink, <<>>)

\* the responses a request can get
Responses ==
    {Failure, Page(<<>>), Page(<<CardA>>), Page(<<CardBare>>), Page(<<CardA, CardA2>>)}

\* the keyword lists gather_all_jobs is called with
KeywordLists ==
    { <<"Java Angular Full Stack">>,
      <<"Java Angular Full Stack", "Java Full Stack">> }

InitGather ==
    /\ keywords \in KeywordLists
    /\ gpc = "fetch"
    /\ slot = 1
    /\ all_found = <<>>
    /\ unique = <<>>
    /\ fetchLog = <<>>
    /\ lastOk = TRUE
    /\ lastLen = 0
    /\ firstFail = 0
    /\ IdleClassifier
    /\ IdleMain

\* all_found += [{"keyword": kw, **j} for j in scrape_<source>_for(kw)]
Fetch ==
    /\ gpc = "fetch"
    /\ slot <= NumSlots(keywords)
    /\ \E resp \in Responses :
        LET kw == KeywordOf(keywords, slot)
            src == SourceOf(slot)
            found == Tagged(kw, Scrape(src, resp))
        IN  /\ Len(all_found) + Len(found) <= MaxFound
            /\ all_found' = all_found \o found
            /\ fetchLog' = Append(fetchLog, <<kw, src>>)
            /\ lastOk' = resp.ok
            /\ lastLen' = Len(all_found)
            /\ firstFail' = IF firstFail = 0 /\ ~ resp.ok THEN slot ELSE firstFail
            /\ slot' = NextSlot(slot, resp)
    /\ UNCHANGED <<keywords, gpc, unique, cvars, mvars>>

\* the keyword loop is over
FetchDone ==
    /\ gpc = "fetch"
    /\ slot > NumSlots(keywords)
    /\ gpc' = "dedup"
    /\ UNCHANGED <<keywords, slot, all_found, unique, fetchLog, lastOk, lastLen, firstFail, cvars, mvars>>

\* the deduplication loop and the return
Deduplicate ==
    /\ gpc = "dedup"
    /\ unique' = Dedup(all_found)
    /\ gpc' = "done"
    /\ UNCHANGED <<keywords, slot, all_found, fetchLog, lastOk, lastLen, firstFail, cvars, mvars>>

NextGather == Fetch \/ FetchDone \/ Deduplicate

SpecGather == InitGather /\ [][NextGather]_vars

(***************************************************************************)
(* Claims about gather_all_jobs                                            *)
(***************************************************************************)
IdentityOf(r) == <<r.source, r.title, r.company, r.link>>

\* the positions of all_found that carry their identity tuple for the first time
FirstPositions(items) ==
    {i \in 1..Len(items) :
        \A j \in 1..(i - 1) : IdentityOf(items[j]) # IdentityOf(items[i])}

\* the n-th smallest element of the set of positions I
NthOf(I, n) == CHOOSE i \in I : Cardinality({j \in I : j <= i}) = n

\* C1: the list returned by gather_all_jobs holds, for each distinct
\* (source, title, company, link) of the collected records, exactly the first
\* collected record carrying it, and these in their collected order.
C1_FirstOccurrencesInOrder ==
    gpc = "done" =>
        LET I == FirstPositions(all_found)
        IN  /\ Len(unique) = Cardinality(I)
            /\ \A n \in 1..Len(unique) : unique[n] = all_found[NthOf(I, n)]

\* C1 witness: three records were collected, the third repeats the identity
\* of the first with another keyword, the second has another identity, and
\* the first two were returned.
C1_Witness ==
    /\ gpc = "done"
    /\ Len(all_found) = 3
    /\ IdentityOf(all_found[3]) = IdentityOf(all_found[1])
    /\ all_found[3] # all_found[1]
    /\ IdentityOf(all_found[2]) # IdentityOf(all_found[1])
    /\ unique = <<all_found[1], all_found[2]>>

RECURSIVE PairsInOrder(_)
\* every (keyword, source) pair, keyword by keyword and source by source
PairsInOrder(kws) ==
    IF kws = <<>> THEN <<>>
    ELSE [n \in 1..Len(SOURCES) |-> <<Head(kws), SOURCES[n]>>] \o PairsInOrder(Tail(kws))

\* C2: the requests made so far are the first (keyword, source) pairs in
\* keyword-then-source order, each once; a failed request added no record;
\* and once the loop is over every pair has been requested, whatever failed.
C2_EveryPairOnceInOrder ==
    LET expected == PairsInOrder(keywords)
    IN  /\ Len(fetchLog) <= Len(expected)
        /\ fetchLog = SubSeq(expected, 1, Len(fetchLog))
        /\ (~ lastOk) => Len(all_found) = lastLen
        /\ gpc \in {"dedup", "done"} => fetchLog = expected

\* C2 witness: the very first request failed, all twelve pairs of two
\* keywords were requested all the same, and records were collected.
C2_Witness ==
    /\ gpc = "done"
    /\ firstFail = 1
    /\ Len(keywords) = 2
    /\ Len(fetchLog) = 12
    /\ all_found # <<>>

IsAbsoluteURL(link) == link # None /\ link # <<>> /\ link[1] \in {"https://", "http://"}

\* C10: the link of every collected record is None, empty or an absolute URL.
C10_LinksAbsoluteOrEmpty ==
    \A i \in 1..Len(all_found) :
        \/ all_found[i].link = None
        \/ all_found[i].link = <<>>
        \/ IsAbsoluteURL(all_found[i].link)

(***************************************************************************)
(* SpecClassifier: detect_notice_period on every text of at most MaxAtoms  *)
(* pieces, and on None                                                     *)
(***************************************************************************)
MaxAtoms == 3

Atoms ==
    { <<"A", "S", "A", "P">>,
      <<"a", "s", "A", "p">>,
      <<"i", "m", "m", "e", "d", "i", "a", "t", "e">>,
      <<"9", "0", " ", "d", "a", "y", "s">>,
      <<"9", "0">>,
      <<"1">>,
      <<"0">>,
      <<" ">>,
      <<"\n">>,
      <<"D", "a", "y">>,
      <<" ", "d", "a", "y", "s">>,
      <<"x">> }

RECURSIVE TextsOf(_)
TextsOf(n) ==
    IF n = 0 THEN {<<>>}
    ELSE LET S == TextsOf(n - 1) IN S \cup {s \o a : s \in S, a \in Atoms}

InitClassifier ==
    /\ text \in {None} \cup TextsOf(MaxAtoms)
    /\ notice = None
    /\ cpc = "input"
    /\ IdleGather
    /\ IdleMain

\* a snippet is classified by jobs_scraper.py
Classify ==
    /\ cpc = "input"
    /\ notice' = detect_notice_period(text)
    /\ cpc' = "main"
    /\ UNCHANGED <<text, gvars, mvars>>

\* a snippet is classified by Jobs_scraper.py
LegacyClassify ==
    /\ cpc = "input"
    /\ notice' = legacy_detect_notice_period(text)
    /\ cpc' = "legacy"
    /\ UNCHANGED <<text, gvars, mvars>>

NextClassifier == Classify \/ LegacyClassify

SpecClassifier == InitClassifier /\ [][NextClassifier]_vars

(***************************************************************************)
(* Claims about the classifier                                             *)
(***************************************************************************)
Classified == cpc \in {"main", "legacy"}

ASAP_LOWER == <<"a", "s", "a", "p">>

\* "asap", in any casing, occurs somewhere in t
ContainsAsapSubstring(t) ==
    t # None /\ \E i \in 0..Len(t) : LitAt(Lower(t), i, ASAP_LOWER)

\* "asap", in any casing, occurs in t with no letter, digit or underscore next to it
ContainsAsapWord(t) ==
    /\ t # None
    /\ \E i \in 0..Len(t) :
        /\ LitAt(Lower(t), i, ASAP_LOWER)
        /\ ~ WordAt(t, i)
        /\ ~ WordAt(t, i + 5)

\* one of the five immediate phrases occurs in t as a whole word
HasImmediatePhrase(t) ==
    /\ t # None
    /\ \E i \in 0..Len(t) : \E ph \in IMMEDIATE_ALTS :
        /\ LitAt(Lower(t), i, ph)
        /\ ~ WordAt(t, i)
        /\ ~ WordAt(t, i + Len(ph) + 1)

\* "day" or "days" ends at a word end, after optional white space, from position i
DayUnitFrom(t, i) ==
    \E k \in 0..(Len(t) - i) : \E w \in {<<"d", "a", "y">>, <<"d", "a", "y", "s">>} :
        /\ \A j \in 1..k : t[i + j] \in {" ", "\n", "\t"}
        /\ LitAt(Lower(t), i + k, w)
        /\ ~ WordAt(t, i + k + Len(w) + 1)

\* the whole-word day counts of t: <<i, n>> is a maximal digit run t[i+1..i+n]
\* with no word character before it and a day unit after it
DayCounts(t) ==
    IF t = None THEN {}
    ELSE {c \in (0..Len(t)) \X (1..Len(t)) :
            /\ c[1] + c[2] <= Len(t)
            /\ \A k \in 1..c[2] : t[c[1] + k] \in Digits
            /\ ~ WordAt(t, c[1])
            /\ ~ (c[1] + c[2] + 1 <= Len(t) /\ t[c[1] + c[2] + 1] \in Digits)
            /\ DayUnitFrom(t, c[1] + c[2])}

CountDigits(t, c) == SubSeq(t, c[1] + 1, c[1] + c[2])

OneNinetyDays == <<"1", "9", "0", " ", "d", "a", "y", "s">>

\* C7 as stated: every text that contains "ASAP" in any letter-casing is
\* classified "Immediate", whatever day counts it also contains.
C7_AsapSubstringImmediate ==
    (Classified /\ ContainsAsapSubstring(text)) => notice = Immediate

\* C7 amended: every text that contains "ASAP" in any letter-casing as a whole
\* word (no letter, digit or underscore directly before or after it) is
\* classified "Immediate", also when a day count such as "90 days" is present.
C7_AsapWordImmediate ==
    (Classified /\ ContainsAsapWord(text)) => notice = Immediate

\* C7 witness: jobs_scraper.py classified a text holding the word ASAP and a
\* whole-word "90 days", and answered "Immediate".
C7_Witness ==
    /\ cpc = "main"
    /\ ContainsAsapWord(text)
    /\ \E c \in DayCounts(text) : CountDigits(text, c) = <<"9", "0">>
    /\ notice = Immediate

\* C8: for a text with no immediate phrase, a whole-word "90 day"/"90 days"
\* gives "90 days"; and when every whole-word day count of the text is 190
\* (90 embedded in a larger number), the generic rule gives "190 days".
C8_NinetyWholeWord ==
    (Classified /\ text # None /\ ~ HasImmediatePhrase(text)) =>
        /\ (\E c \in DayCounts(text) : CountDigits(text, c) = <<"9", "0">>)
              => notice = NinetyDays
        /\ ( /\ DayCounts(text) # {}
             /\ \A c \in DayCounts(text) : CountDigits(text, c) = <<"1", "9", "0">> )
              => notice = OneNinetyDays

\* C8 witness: jobs_scraper.py classified a text whose only day count is 190
\* and answered "190 days".
C8_Witness ==
    /\ cpc = "main"
    /\ ~ HasImmediatePhrase(text)
    /\ DayCounts(text) # {}
    /\ \A c \in DayCounts(text) : CountDigits(text, c) = <<"1", "9", "0">>
    /\ notice = OneNinetyDays

\* "<N> days" with N in 1..999 written without leading zeros
IsCountOfDays(v) ==
    /\ Len(v) \in 6..8
    /\ SubSeq(v, Len(v) - 4, Len(v)) = DaysSuffix
    /\ \A k \in 1..(Len(v) - 5) : v[k] \in Digits
    /\ v[1] # "0"

\* C9: the value returned for any text, None and the empty text included, is
\* "Immediate", "90 days", "Not stated" or "<N> days" with N in 1..999 and no
\* leading zero; it is never "0 days".
C9_NoticeRange ==
    Classified =>
        \/ notice \in {Immediate, NinetyDays, NotStated}
        \/ IsCountOfDays(notice)

(***************************************************************************)
(* Spec: runs of main, of jobs_scraper.py and of Jobs_scraper.py, in one   *)
(* working directory                                                       *)
(***************************************************************************)
MaxRuns == 2

LEGACY_CARD_LIMIT == 10

\* KEYWORDS of jobs_scraper.py
KEYWORDS ==
    << "Java Angular Full Stack", "Java Full Stack", "Angular Developer",
       "Java Developer", "Full Stack Developer", "Frontend Developer",
       "Backend Developer", "Spring Boot Developer" >>

\* SEARCH_QUERIES of Jobs_scraper.py, by type
SEARCH_QUERIES == <<"indeed", "internshala">>

RECURSIVE CollectFrom(_, _, _, _)
\* the keyword loop of gather_all_jobs from request s on, resps[s] being the
\* response to request s
CollectFrom(kws, resps, s, found) ==
    IF s > NumSlots(kws) THEN found
    ELSE CollectFrom(kws, resps, NextSlot(s, resps[s]),
                     found \o Tagged(KeywordOf(kws, s), Scrape(SourceOf(s), resps[s])))

RECURSIVE RequestsFrom(_, _, _, _)
\* the (keyword, source) pairs that loop requests
RequestsFrom(kws, resps, s, log) ==
    IF s > NumSlots(kws) THEN log
    ELSE RequestsFrom(kws, resps, NextSlot(s, resps[s]),
                      Append(log, <<KeywordOf(kws, s), SourceOf(s)>>))

\* the card body of scrape_indeed / scrape_internshala of Jobs_scraper.py: a
\* missing node raises inside the bare try and the card is skipped
LegacyScrapeCard(typ, c) ==
    IF c.title = None \/ c.company = None \/ c.href = None
        \/ (typ = "indeed" /\ c.snippet = None)
    THEN <<>>
    ELSE LET src == IF typ = "indeed" THEN "Indeed" ELSE "Internshala"
             link == Absolutize(src, c.href)
             snippet == IF typ = "indeed" THEN c.snippet ELSE Truncate(c.snippet, 200)
         IN  <<[source |-> src, title |-> c.title, company |-> c.company, link |-> link,
                snippet |-> snippet, notice |-> legacy_detect_notice_period(snippet)]>>

RECURSIVE LegacyScrapeCards(_, _)
LegacyScrapeCards(typ, cards) ==
    IF cards = <<>> THEN <<>>
    ELSE LegacyScrapeCard(typ, Head(cards)) \o LegacyScrapeCards(typ, Tail(cards))

\* scrape_indeed(url) / scrape_internshala(url)
LegacyScrape(typ, resp) ==
    IF ~ resp.ok THEN <<>>
    ELSE LegacyScrapeCards(typ, Truncate(resp.cards, LEGACY_CARD_LIMIT))

\* key = (job["title"], job["company"], job["link"])
LegacyDedupKey(job) == <<job.title, job.company, job.link>>

RECURSIVE LegacyDedupLoop(_, _, _)
LegacyDedupLoop(items, seen, uniq) ==
    IF items = <<>> THEN uniq
    ELSE LET key == LegacyDedupKey(Head(items))
         IN  IF key \notin seen
             THEN LegacyDedupLoop(Tail(items), seen \cup {key}, Append(uniq, Head(items)))
             ELSE LegacyDedupLoop(Tail(items), seen, uniq)

\* gather_jobs() of Jobs_scraper.py
gather_jobs(resps) ==
    LegacyDedupLoop(LegacyScrape(SEARCH_QUERIES[1], resps[1])
                        \o LegacyScrape(SEARCH_QUERIES[2], resps[2]), {}, <<>>)

(***************************************************************************)
(* The digest.  A document is the sequence of the pieces its f-strings     *)
(* concatenate, in order: each piece an element with the texts that are    *)
(* interpolated into it.  A table element stands for the opening tag with  *)
(* its row of column headings, a tr element for one data row.              *)
(***************************************************************************)
Element(tag, values) == [tag |-> tag, values |-> values]

\* <h2>{EMAIL_SENDER_NAME} - {now.strftime(...)}</h2>
Header(now) == Element("h2", <<FormatInt(now)>>)

Style == Element("style", <<>>)

NO_JOBS_FOUND == <<"No jobs found today.">>
HIGHLIGHT_NOTE == <<"Note: 90-days notice periods are highlighted in red.">>

Paragraph(t) == Element("p", <<t>>)

TableOpen == Element("table", <<>>)
TableClose == Element("/table", <<>>)

\* sub in s
Contains(s, sub) == \E i \in 0..(Len(s) - Len(sub)) : LitAt(s, i, sub)

\* X or default
OrElse(v, d) == IF v = None \/ v = <<>> THEN d ELSE v

\* notice_html of build_grouped_html: the class and the text of the badge
notice_html(n) ==
    IF Contains(n, <<"9", "0">>)
    THEN <<<<"notice-90">>, NinetyDays>>
    ELSE <<<<"notice-other">>, n>>

\* notice_html of build_html_email
legacy_notice_html(n) ==
    IF n = NinetyDays
    THEN <<<<"notice-90">>, NinetyDays>>
    ELSE <<<<"notice-other">>, n>>

\* it.get(k, d): the text under key k of a record, d when the key is absent
Get(it, k, d) ==
    IF k \notin DOMAIN it THEN d
    ELSE IF k = "keyword" THEN (IF it[k] = "" THEN <<>> ELSE <<it[k]>>)
    ELSE it[k]

\* the <tr> of one record in build_grouped_html: link, title, company,
\* snippet, keyword, badge class, badge text
Row(it) ==
    Element("tr", << OrElse(Get(it, "link", None), <<"#">>),
                     Get(it, "title", NoTitle),
                     Get(it, "company", Unknown),
                     Truncate(OrElse(Get(it, "snippet", None), <<>>), 400),
                     OrElse(Get(it, "keyword", None), <<>>) >>
                  \o notice_html(OrElse(Get(it, "notice", None), NotStated)))

RECURSIVE Rows(_)
Rows(items) == IF items = <<>> THEN <<>> ELSE <<Row(Head(items))>> \o Rows(Tail(items))

\* the dict grouped is the sequence of its (key, value) items in insertion
\* order.  A grouping that only looks at the latest group, as
\* itertools.groupby does on unsorted input:
AddToGroup_Adjacent(grouped, j) ==
    LET src == IF "source" \in DOMAIN j THEN j.source ELSE "Other"
        n == Len(grouped)
    IN  IF n > 0 /\ grouped[n].source = src
        THEN [grouped EXCEPT ![n].items = Append(@, j)]
        ELSE Append(grouped, [source |-> src, items |-> <<j>>])

\* src = j.get("source", "Other"); grouped.setdefault(src, []).append(j)
AddToGroup(grouped, j) ==
    LET src == IF "source" \in DOMAIN j THEN j.source ELSE "Other"
        at == {k \in 1..Len(grouped) : grouped[k].source = src}
    IN  IF at = {}
        THEN Append(grouped, [source |-> src, items |-> <<j>>])
        ELSE [grouped EXCEPT ![CHOOSE k \in at : TRUE].items = Append(@, j)]

RECURSIVE GroupBySource(_, _)
\* for j in jobs: ..., from the dict grouped built so far
GroupBySource(js, grouped) ==
    IF js = <<>> THEN grouped
    ELSE GroupBySource(Tail(js), AddToGroup(grouped, Head(js)))

RECURSIVE Tables(_)
\* for src, items in grouped.items(): heading with the count, table, rows
Tables(grouped) ==
    IF grouped = <<>> THEN <<>>
    ELSE LET src == Head(grouped).source
             items == Head(grouped).items
         IN  <<Element("h3", <<<<src>>, FormatInt(Len(items))>>), TableOpen>>
                 \o Rows(items) \o <<TableClose>> \o Tables(Tail(grouped))

\* build_grouped_html(jobs), called at time now
build_grouped_html(js, now) ==
    [stamp |-> now,
     body |-> IF js = <<>>
              THEN <<Header(now), Style, Paragraph(NO_JOBS_FOUND)>>
              ELSE <<Header(now), Style>> \o Tables(GroupBySource(js, <<>>))
                       \o <<Paragraph(HIGHLIGHT_NOTE)>>]

\* the <tr> of one record in build_html_email: title, company, link,
\* snippet, badge class, badge text
LegacyRow(j) ==
    Element("tr", <<j.title, j.company, j.link, j.snippet>> \o legacy_notice_html(j.notice))

RECURSIVE LegacyRows(_)
LegacyRows(js) == IF js = <<>> THEN <<>> ELSE <<LegacyRow(Head(js))>> \o LegacyRows(Tail(js))

\* build_html_email(jobs) of Jobs_scraper.py, called at time now
build_html_email(js, now) ==
    [stamp |-> now,
     body |-> <<Header(now), Style, TableOpen>> \o LegacyRows(js) \o <<TableClose>>]

\* with open("last_email.html", "w") as f: f.write(body), by how it ends
WriteFile(f, body, outcome) ==
    CASE outcome = "written" -> WrittenFile(body)
      [] outcome = "open failed" -> f
      [] outcome = "write failed" -> TruncatedFile

WriteOutcomes == {"written", "open failed", "write failed"}

\* an environment value: unset, set to the empty string, or set
EnvValues == {None, <<>>, <<"value">>}

Environments ==
    [GMAIL_USER : EnvValues, GMAIL_APP_PASSWORD : EnvValues, RECIPIENT_EMAIL : EnvValues]

Falsy(v) == v = None \/ v = <<>>

\* send_email without its check of the environment
ConfigMissing_Never(e) == FALSE

\* not (GMAIL_USER and GMAIL_APP_PASSWORD and RECIPIENT_EMAIL)
ConfigMissing(e) ==
    Falsy(e.GMAIL_USER) \/ Falsy(e.GMAIL_APP_PASSWORD) \/ Falsy(e.RECIPIENT_EMAIL)

\* the SMTP calls of send_email in jobs_scraper.py and in Jobs_scraper.py
SMTP_CALLS == <<"connect", "ehlo", "starttls", "login", "sendmail", "quit">>
LEGACY_SMTP_CALLS == <<"connect", "starttls", "login", "sendmail", "quit">>

\* the calls made when call number failAt raises (0: none raises)
Session(calls, failAt) ==
    [i \in 1..(IF failAt = 0 THEN Len(calls) ELSE failAt) |->
        [call |-> calls[i], ok |-> i # failAt]]

\* Jobs_scraper.py hands the environment to smtplib unchecked: the server
\* rejects a login without user or password, and sendmail raises on a
\* recipient that is None or empty
LegacyFailPoints(e) ==
    IF Falsy(e.GMAIL_USER) \/ Falsy(e.GMAIL_APP_PASSWORD) THEN 1..3
    ELSE IF Falsy(e.RECIPIENT_EMAIL) THEN 1..4
    ELSE 0..5

\* the responses of one run's requests
ResponseRuns(n) ==
    { [s \in 1..n |-> Failure],
      [s \in 1..n |-> Page(<<>>)],
      [s \in 1..n |-> IF s = 2 THEN Page(<<CardA, CardA2>>) ELSE Failure],
      [s \in 1..n |-> Page(<<CardA>>)] }

Programs == {"jobs_scraper", "Jobs_scraper"}

Init ==
    /\ prog \in Programs
    /\ env \in Environments
    /\ run = 1
    /\ pc = "start"
    /\ jobs = <<>>
    /\ html = NoDocument
    /\ file = MissingFile
    /\ lastWrite = "none"
    /\ smtp = <<>>
    /\ exit = "running"
    /\ IdleClassifier
    /\ keywords = <<>> /\ gpc = "idle" /\ slot = 0 /\ all_found = <<>> /\ unique = <<>>
    /\ fetchLog = <<>> /\ lastOk = TRUE /\ lastLen = 0 /\ firstFail = 0

\* jobs = gather_all_jobs(KEYWORDS)
Gather ==
    /\ prog = "jobs_scraper"
    /\ pc = "start"
    /\ \E resps \in ResponseRuns(NumSlots(KEYWORDS)) :
        /\ keywords' = KEYWORDS
        /\ all_found' = CollectFrom(KEYWORDS, resps, 1, <<>>)
        /\ fetchLog' = RequestsFrom(KEYWORDS, resps, 1, <<>>)
        /\ unique' = Dedup(all_found')
        /\ jobs' = unique'
        /\ firstFail' = IF \A t \in DOMAIN resps : resps[t].ok THEN 0
                        ELSE CHOOSE t \in DOMAIN resps :
                                 ~ resps[t].ok /\ \A u \in 1..(t - 1) : resps[u].ok
    /\ pc' = "gathered"
    /\ UNCHANGED <<gpc, slot, lastOk, lastLen, cvars,
                   prog, env, run, html, file, lastWrite, smtp, exit>>

\* jobs = gather_jobs()
LegacyGather ==
    /\ prog = "Jobs_scraper"
    /\ pc = "start"
    /\ \E resps \in ResponseRuns(Len(SEARCH_QUERIES)) :
        /\ fetchLog' = [i \in 1..Len(SEARCH_QUERIES) |-> <<"", SEARCH_QUERIES[i]>>]
        /\ unique' = gather_jobs(resps)
        /\ jobs' = unique'
    /\ pc' = "gathered"
    /\ UNCHANGED <<keywords, all_found, gpc, slot, lastOk, lastLen, firstFail, cvars,
                   prog, env, run, html, file, lastWrite, smtp, exit>>

\* html = build_grouped_html(jobs) in main of jobs_scraper.py
Render ==
    /\ prog = "jobs_scraper"
    /\ pc = "gathered"
    /\ html' = build_grouped_html(jobs, run)
    /\ pc' = "rendered"
    /\ UNCHANGED <<gvars, cvars, prog, env, run, jobs, file, lastWrite, smtp, exit>>

\* html = build_html_email(jobs) in main of Jobs_scraper.py, which goes on to
\* send_email
LegacyRender ==
    /\ prog = "Jobs_scraper"
    /\ pc = "gathered"
    /\ html' = build_html_email(jobs, run)
    /\ pc' = "saved"
    /\ UNCHANGED <<gvars, cvars, prog, env, run, jobs, file, lastWrite, smtp, exit>>

\* the preview write of main in jobs_scraper.py, its failure printed and dropped
SavePreview ==
    /\ prog = "jobs_scraper"
    /\ pc = "rendered"
    /\ \E outcome \in WriteOutcomes :
          file' = WriteFile(file, html, outcome) /\ lastWrite' = outcome
    /\ pc' = "saved"
    /\ UNCHANGED <<gvars, cvars, prog, env, run, jobs, html, smtp, exit>>

\* send_email(subject, html) of jobs_scraper.py, and the end of main
SendEmail ==
    /\ prog = "jobs_scraper"
    /\ pc = "saved"
    /\ pc' = "exited"
    /\ IF ConfigMissing(env)
       THEN /\ exit' = "config error"
            /\ UNCHANGED <<smtp, file, lastWrite>>
       ELSE \E failAt \in 0..Len(SMTP_CALLS) :
              /\ smtp' = Session(SMTP_CALLS, failAt)
              /\ IF failAt = 0
                 THEN exit' = "ok" /\ UNCHANGED <<file, lastWrite>>
                 ELSE /\ \E outcome \in WriteOutcomes :
                            file' = WriteFile(file, html, outcome) /\ lastWrite' = outcome
                      /\ exit' = "delivery error"
    /\ UNCHANGED <<gvars, cvars, prog, env, run, jobs, html>>

\* send_email(subject, html) of Jobs_scraper.py, and the end of main
LegacySendEmail ==
    /\ prog = "Jobs_scraper"
    /\ pc = "saved"
    /\ pc' = "exited"
    /\ \E failAt \in LegacyFailPoints(env) :
          /\ smtp' = Session(LEGACY_SMTP_CALLS, failAt)
          /\ exit' = IF failAt = 0 THEN "ok" ELSE "delivery error"
    /\ UNCHANGED <<gvars, cvars, prog, env, run, jobs, html, file, lastWrite>>

\* the scheduler starts the next run, of either script, in the same directory
NextRun ==
    /\ pc = "exited"
    /\ run < MaxRuns
    /\ run' = run + 1
    /\ prog' \in Programs
    /\ env' \in Environments
    /\ pc' = "start"
    /\ jobs' = <<>>
    /\ html' = NoDocument
    /\ smtp' = <<>>
    /\ lastWrite' = "none"
    /\ exit' = "running"
    /\ keywords' = <<>> /\ all_found' = <<>> /\ unique' = <<>> /\ fetchLog' = <<>>
    /\ firstFail' = 0
    /\ UNCHANGED <<gpc, slot, lastOk, lastLen, cvars, file>>

Next ==
    \/ Gather
    \/ LegacyGather
    \/ Render
    \/ LegacyRender
    \/ SavePreview
    \/ SendEmail
    \/ LegacySendEmail
    \/ NextRun

Spec == Init /\ [][Next]_vars

(***************************************************************************)
(* Claims about main and send_email                                        *)
(***************************************************************************)
\* some SMTP call of this run raised
DeliveryFailed == \E i \in 1..Len(smtp) : ~ smtp[i].ok

\* the server accepted the message
MessageSent == \E i \in 1..Len(smtp) : smtp[i].call = "sendmail" /\ smtp[i].ok

\* one of the three required values is not in the environment
SomeValueAbsent(e) ==
    e.GMAIL_USER = None \/ e.GMAIL_APP_PASSWORD = None \/ e.RECIPIENT_EMAIL = None

\* one of the three required values is not in the environment or is empty
SomeValueMissing(e) ==
    \E k \in {"GMAIL_USER", "GMAIL_APP_PASSWORD", "RECIPIENT_EMAIL"} : e[k] \in {None, <<>>}

\* C3: when send_email has failed during delivery and the failure reaches the
\* caller, last_email.html holds the document that was being sent.
C3_DeliveryFailurePersisted ==
    exit = "delivery error" => file = WrittenFile(html)

\* C4: when a run of main is over, delivered or not, last_email.html holds
\* the digest rendered in that run.
C4_FileHoldsThisRunsDigest ==
    pc = "exited" => (html.stamp = run /\ file = WrittenFile(html))

\* C5: in a run whose environment lacks one of the three required values no
\* SMTP call is ever made, and the run ends with the configuration error.
C5_NoDeliveryWithoutConfig ==
    SomeValueAbsent(env) =>
        /\ smtp = <<>>
        /\ pc = "exited" => exit = "config error"

\* C6: a run of main is over only after every request was made and the
\* digest rendered; it ends with a propagated error exactly when the
\* configuration is missing or a delivery step failed, and normally
\* otherwise, whatever the requests returned.
C6_ErrorIffConfigOrDelivery ==
    /\ (exit # "running") <=> (pc = "exited")
    /\ pc = "exited" =>
        /\ Len(fetchLog) = (IF prog = "jobs_scraper"
                            THEN Len(KEYWORDS) * Len(SOURCES) ELSE Len(SEARCH_QUERIES))
        /\ html.stamp = run /\ html.body # <<>>
        /\ exit \in {"ok", "config error", "delivery error"}
        /\ (exit # "ok") <=> (SomeValueMissing(env) \/ DeliveryFailed)

\* C6 witness: a run of jobs_scraper.py whose requests all failed and that
\* found no job was delivered and ended normally.
C6_Witness ==
    /\ prog = "jobs_scraper"
    /\ pc = "exited"
    /\ firstFail = 1
    /\ all_found = <<>>
    /\ jobs = <<>>
    /\ MessageSent
    /\ exit = "ok"

\* C6 second case, reached as well: a run ended with the delivery error after
\* its requests and its rendering.
C6_WitnessError ==
    /\ pc = "exited" /\ exit = "delivery error" /\ jobs # <<>> /\ html.stamp = run

\* What jobs_scraper.py alone does about C3, C4 and C5: a missing value ends
\* the run before any SMTP call; main writes the preview and the handler of
\* a delivery failure writes again, each write at best effort; the file
\* holds the run's digest at the end when the latest write succeeded, and
\* after a failed one it is truncated or as the write before left it.
MainScript_BestEffortPersistence ==
    prog = "jobs_scraper" =>
        /\ SomeValueMissing(env) => (smtp = <<>> /\ (pc = "exited" => exit = "config error"))
        /\ pc = "exited" => lastWrite # "none"
        /\ (pc = "exited" /\ lastWrite = "written") => file = WrittenFile(html)
        /\ (pc = "exited" /\ lastWrite = "write failed") => file = TruncatedFile

\* reached: the delivery failed and both writes of the run failed, so the
\* failure was re-raised with no document in the file
MainScript_UnpersistedFailure ==
    /\ prog = "jobs_scraper" /\ exit = "delivery error"
    /\ lastWrite = "open failed" /\ file = MissingFile

(***************************************************************************)
(* SpecRender: one call of the renderer of either script on a list of      *)
(* records as its gathering returns them: scraped from cards, tagged, and  *)
(* deduplicated.                                                           *)
(***************************************************************************)
MaxJobs == 3

Card190 ==
    Card(<<"Angular Developer">>, <<"Initech">>, AbsLink,
         <<"1", "9", "0", " ", "d", "a", "y", "s">>)

RenderCards == {CardA, CardA2, Card190}

RenderSources == {"Indeed", "Naukri", "LinkedIn"}

ElementsOf(seq) == {seq[i] : i \in DOMAIN seq}

SeqsUpTo(S, n) == UNION {[1..k -> S] : k \in 0..n}

\* the records gather_all_jobs can collect from these cards
ScrapedRecords ==
    UNION {ElementsOf(Tagged(KEYWORDS[1], Scrape(src, Page(<<c>>)))) :
               src \in RenderSources, c \in RenderCards}

\* the records gather_jobs of Jobs_scraper.py can collect from these cards
LegacyScrapedRecords ==
    UNION {ElementsOf(LegacyScrape(typ, Page(<<c>>))) :
               typ \in ElementsOf(SEARCH_QUERIES), c \in RenderCards}

InitRender ==
    /\ prog \in Programs
    /\ jobs \in IF prog = "jobs_scraper"
                THEN {Dedup(l) : l \in SeqsUpTo(ScrapedRecords, MaxJobs)}
                ELSE {LegacyDedupLoop(l, {}, <<>>) :
                          l \in SeqsUpTo(LegacyScrapedRecords, MaxJobs)}
    /\ run = 1
    /\ pc = "gathered"
    /\ env = <<>>
    /\ html = NoDocument /\ file = MissingFile /\ lastWrite = "none"
    /\ smtp = <<>> /\ exit = "running"
    /\ IdleGather
    /\ IdleClassifier

NextRender ==
    \/ Render
    \/ LegacyRender

SpecRender == InitRender /\ [][NextRender]_vars

(***************************************************************************)
(* Claims about the digest                                                 *)
(***************************************************************************)
RenderedMain == prog = "jobs_scraper" /\ html.stamp # 0
RenderedLegacy == prog = "Jobs_scraper" /\ html.stamp # 0

\* the data rows of a document, in order
DataRows(body) ==
    LET IsRow(e) == e.tag = "tr"
    IN  SelectSeq(body, IsRow)

\* the positions of the source headings of a document
HeadingPositions(body) == {i \in 1..Len(body) : body[i].tag = "h3"}

\* the data rows of the table under the heading at position i: those
\* between its table element and the next closing tag
RowsAfter(body, i) ==
    LET close == CHOOSE j \in (i + 1)..Len(body) :
                     /\ body[j].tag = "/table"
                     /\ \A u \in (i + 1)..(j - 1) : body[u].tag # "/table"
    IN  SubSeq(body, i + 2, close - 1)

\* the distinct sources of a list of records, in order of first appearance
SourcesInOrder(js) ==
    LET I == {i \in 1..Len(js) : \A u \in 1..(i - 1) : js[u].source # js[i].source}
    IN  [n \in 1..Cardinality(I) |-> js[NthOf(I, n)].source]

\* the records of source s, in their order in js
RecordsOf(js, s) ==
    LET From(j) == j.source = s
    IN  SelectSeq(js, From)

\* the class and the text of the badge of a data row
BadgeOf(row) == SubSeq(row.values, Len(row.values) - 1, Len(row.values))

\* the row shows the red "90 days" badge exactly for the notice "90 days",
\* and for any other notice the plain badge with that notice
BadgeAsClaimed(row, r) ==
    /\ (BadgeOf(row) = <<<<"notice-90">>, NinetyDays>>) <=> (r.notice = NinetyDays)
    /\ r.notice # NinetyDays => BadgeOf(row) = <<<<"notice-other">>, r.notice>>

\* the row shows the red "90 days" badge exactly when "90" occurs in the
\* notice, and otherwise the plain badge with the notice
BadgeAsRendered(row, r) ==
    IF Contains(r.notice, <<"9", "0">>)
    THEN BadgeOf(row) = <<<<"notice-90">>, NinetyDays>>
    ELSE BadgeOf(row) = <<<<"notice-other">>, r.notice>>

\* P(row, record) for every record and the row that shows it: in the digest
\* of jobs_scraper.py the i-th row under the k-th heading shows the i-th
\* record of the k-th source, in that of Jobs_scraper.py the i-th row shows
\* the i-th record
EveryRow(P(_, _)) ==
    /\ RenderedMain =>
          LET S == SourcesInOrder(jobs)
              H == HeadingPositions(html.body)
          IN  \A k \in 1..Len(S) : k <= Cardinality(H) =>
                 LET rows == RowsAfter(html.body, NthOf(H, k))
                     recs == RecordsOf(jobs, S[k])
                 IN  \A i \in 1..Len(recs) : i <= Len(rows) => P(rows[i], recs[i])
    /\ RenderedLegacy =>
          LET rows == DataRows(html.body)
          IN  \A i \in 1..Len(jobs) : i <= Len(rows) => P(rows[i], jobs[i])

\* C11: in the rendered digest the row of a record shows the red badge
\* (class notice-90, text "90 days") if and only if the record's notice is
\* "90 days", and for every other notice the plain badge with the record's
\* own notice.
C11_RedBadgeIffNinetyDays == EveryRow(BadgeAsClaimed)

\* What the scripts do about C11: Jobs_scraper.py tests the notice for
\* equality and renders as claimed; jobs_scraper.py shows the red "90 days"
\* badge for every notice in which "90" occurs.
Digest_BadgeBySubstring ==
    /\ RenderedLegacy => EveryRow(BadgeAsClaimed)
    /\ RenderedMain => EveryRow(BadgeAsRendered)

\* reached: jobs_scraper.py rendered a record whose notice is "190 days"
\* with the red "90 days" badge
Digest_RedBadgeFor190Days ==
    /\ RenderedMain
    /\ Len(jobs) = 1
    /\ jobs[1].notice = <<"1", "9", "0", " ", "d", "a", "y", "s">>
    /\ DataRows(html.body) # <<>>
    /\ BadgeOf(DataRows(html.body)[1]) = <<<<"notice-90">>, NinetyDays>>

\* the document says that no job was found
HasNoJobsIndicator(body) ==
    \E i \in 1..Len(body) : body[i].tag = "p" /\ body[i].values = <<NO_JOBS_FOUND>>

HasTable(body) == \E i \in 1..Len(body) : body[i].tag = "table"

\* the placeholder instead of a table for no record, and never otherwise
PlaceholderIffEmpty ==
    /\ jobs = <<>> =>
          /\ HasNoJobsIndicator(html.body)
          /\ ~ HasTable(html.body)
          /\ DataRows(html.body) = <<>>
    /\ jobs # <<>> => ~ HasNoJobsIndicator(html.body)

\* C12: the document rendered from an empty list of records contains the
\* "no jobs found" indicator, no table and no data row; the document
\* rendered from a non-empty list never contains that indicator.
C12_EmptyDigestPlaceholder ==
    (RenderedMain \/ RenderedLegacy) => PlaceholderIffEmpty

\* What the scripts do about C12: jobs_scraper.py renders as claimed;
\* Jobs_scraper.py never shows the indicator and always renders one table,
\* with a data row for each record.
Digest_PlaceholderInMainScriptOnly ==
    /\ RenderedMain => PlaceholderIffEmpty
    /\ RenderedLegacy =>
          /\ ~ HasNoJobsIndicator(html.body)
          /\ HasTable(html.body)
          /\ Len(DataRows(html.body)) = Len(jobs)

\* reached: Jobs_scraper.py rendered no record as a table without data rows
Digest_LegacyEmptyTable ==
    /\ RenderedLegacy
    /\ jobs = <<>>
    /\ HasTable(html.body)
    /\ DataRows(html.body) = <<>>
    /\ ~ HasNoJobsIndicator(html.body)

\* C13: the grouping by source of the deduplicated records is a partition:
\* there is one group per distinct source, the groups come in order of first
\* appearance of their source, the group of a source holds exactly the
\* records of that source in their original order and is headed by their
\* count, and the groups together hold as many rows as there are records.
C13_GroupingIsPartition ==
    RenderedMain =>
        LET body == html.body
            S == SourcesInOrder(jobs)
            H == HeadingPositions(body)
        IN  /\ Cardinality(H) = Len(S)
            /\ \A k \in 1..Len(S) :
                  LET recs == RecordsOf(jobs, S[k])
                  IN  /\ body[NthOf(H, k)].values = <<<<S[k]>>, FormatInt(Len(recs))>>
                      /\ RowsAfter(body, NthOf(H, k)) = Rows(recs)
            /\ Len(DataRows(body)) = Len(jobs)

\* C13 witness: three records were rendered, the first and the third of one
\* source and the second of another; the digest has two groups, the first
\* one with the first and the third record.
C13_Witness ==
    /\ RenderedMain
    /\ Len(jobs) = 3
    /\ jobs[1].source = jobs[3].source
    /\ jobs[2].source # jobs[1].source
    /\ jobs[1] # jobs[3]
    /\ Cardinality(HeadingPositions(html.body)) = 2
    /\ RowsAfter(html.body, 3) = <<Row(jobs[1]), Row(jobs[3])>>

====
